---- MODULE Spec2Model ----
(***************************************************************************)
(* The ChatBot controller of static/script.js as a state machine.          *)
(*                                                                         *)
(* Every event listener of the page is one action: it runs the whole       *)
(* synchronous handler.  sendMessage is an async function: its first part  *)
(* (up to the await of sendToAPI) runs inside the listener that called it, *)
(* its continuation runs as the Settle action when the fetch settles.      *)
(* Texts are sequences of character runs, so that trim() and length are    *)
(* computed and not assumed.  Message timestamps (wall clock) are left out.*)
(***************************************************************************)
EXTENDS Integers, Sequences, FiniteSets, TLC

\* ------------------------------------------------------------------ bounds
MaxHistory == 3      \* messages the transcript may hold in the model
MaxTimers == 2       \* hideError timers pending at once

\* ------------------------------------------------------- program constants
MaxInputLength == 1000   \* the "/1000" of the character counter

\* --------------------------------------------------------------- the texts
\* A text is a sequence of runs: [c |-> a character, n |-> how often it is
\* repeated, n >= 1], with neighbouring runs of different characters.
Whitespace == {" ", "\n"}

Run(c, n) == [c |-> c, n |-> n]

LongText == << Run("x", MaxInputLength + 1) >>

\* what the user may have in the textarea after an input event
InputTexts ==
  { <<>>,
    << Run(" ", 2) >>,
    << Run(" ", 1), Run("\n", 1), Run("a", 1), Run(" ", 1), Run("b", 1), Run(" ", 2) >>,
    LongText }

\* the data-question attributes of the sample buttons
SampleQuestions == { << Run("a", 1), Run(" ", 1), Run("b", 1) >> }

\* answers a backend may return
AnswerTexts == { <<>>, << Run("H", 1), Run("i", 1) >> }

GenericError == "Failed to get response. Please try again."
OfflineError == "You are offline. Please check your connection."
UnexpectedError == "An unexpected error occurred. Please refresh the page."

\* String.prototype.length
RECURSIVE TextLen(_)
TextLen(t) == IF t = <<>> THEN 0 ELSE Head(t).n + TextLen(Tail(t))

RECURSIVE DropLeading(_)
DropLeading(t) ==
  IF t = <<>> \/ Head(t).c \notin Whitespace THEN t ELSE DropLeading(Tail(t))

RECURSIVE DropTrailing(_)
DropTrailing(t) ==
  IF t = <<>> \/ t[Len(t)].c \notin Whitespace THEN t
  ELSE DropTrailing(SubSeq(t, 1, Len(t) - 1))

\* mutant: only the leading whitespace is removed
trimStartOnly(t) == DropLeading(t)

\* String.prototype.trim
trim(t) == DropTrailing(DropLeading(t))

\* ------------------------------------------------------------ the backend
ClientToken(n) == <<"session", n>>
ServerTokens == { <<"srv", 1>> }
NoToken == <<"none", 0>>

\* the optional session_id of a response body: absent, "" or a value
SessionIdFields ==
  { [k |-> "absent", v |-> NoToken], [k |-> "empty", v |-> NoToken] }
    \cup { [k |-> "value", v |-> t] : t \in ServerTokens }

DetailTexts == { "", "index unavailable" }
Statuses == { 500 }

NoBody == [hasAnswer |-> FALSE, answer |-> <<>>, session_id |-> [k |-> "absent", v |-> NoToken]]

\* every way a fetch of /api/chat may settle
Responses ==
  { [kind |-> "transport", status |-> 0, hasDetail |-> FALSE, detail |-> "", body |-> NoBody] }
    \cup { [kind |-> "http", status |-> st, hasDetail |-> FALSE, detail |-> "", body |-> NoBody] :
             st \in Statuses }
    \cup { [kind |-> "http", status |-> st, hasDetail |-> TRUE, detail |-> d, body |-> NoBody] :
             st \in Statuses, d \in DetailTexts }
    \cup { [kind |-> "unparsable", status |-> 200, hasDetail |-> FALSE, detail |-> "", body |-> NoBody] }
    \cup { [kind |-> "ok", status |-> 200, hasDetail |-> FALSE, detail |-> "",
            body |-> [hasAnswer |-> FALSE, answer |-> <<>>, session_id |-> sid]] :
             sid \in { f \in SessionIdFields : f.k # "empty" } }
    \cup { [kind |-> "ok", status |-> 200, hasDetail |-> FALSE, detail |-> "",
            body |-> [hasAnswer |-> TRUE, answer |-> a, session_id |-> sid]] :
             a \in AnswerTexts, sid \in SessionIdFields }

NoResponse == [kind |-> "none", status |-> 0, hasDetail |-> FALSE, detail |-> "", body |-> NoBody]

\* --------------------------------------------------------------- the state
VARIABLES
  sessionId,        \* this.sessionId
  isTyping,         \* this.isTyping
  messageHistory,   \* this.messageHistory
  chatMessages,     \* the children of #chatMessages (the sender class of each)
  messageInput,     \* messageInput.value
  sendBtnDisabled,  \* sendBtn.disabled
  charCounter,      \* the count shown in charCounter.textContent
  welcomeDisplay,   \* welcomeScreen.style.display
  chatDisplay,      \* chatInterface.style.display
  typingDisplay,    \* typingIndicator.style.display
  errorDisplay,     \* errorToast.style.display
  errorMessage,     \* errorMessage.textContent
  timers,           \* hideError timers set and not yet fired
  requests,         \* fetches of /api/chat issued and not yet settled, oldest first
  consoleError,     \* the message of the error the last handler passed to console.error
  pendingDispatch,  \* "doc_keydown" while a keydown still has to bubble to document
  lastEvent         \* the listener that ran last and what its sendMessage call did

vars ==
  << sessionId, isTyping, messageHistory, chatMessages, messageInput, sendBtnDisabled,
     charCounter, welcomeDisplay, chatDisplay, typingDisplay, errorDisplay, errorMessage,
     timers, requests, consoleError, pendingDispatch, lastEvent >>

\* the fields the methods of ChatBot read and write, as one record
Cur ==
  [ sessionId |-> sessionId, isTyping |-> isTyping, messageHistory |-> messageHistory,
    chatMessages |-> chatMessages, messageInput |-> messageInput,
    sendBtnDisabled |-> sendBtnDisabled, charCounter |-> charCounter,
    welcomeDisplay |-> welcomeDisplay, chatDisplay |-> chatDisplay,
    typingDisplay |-> typingDisplay, errorDisplay |-> errorDisplay,
    errorMessage |-> errorMessage, timers |-> timers, requests |-> requests,
    consoleError |-> "" ]

Commit(s) ==
  /\ sessionId' = s.sessionId
  /\ isTyping' = s.isTyping
  /\ messageHistory' = s.messageHistory
  /\ chatMessages' = s.chatMessages
  /\ messageInput' = s.messageInput
  /\ sendBtnDisabled' = s.sendBtnDisabled
  /\ charCounter' = s.charCounter
  /\ welcomeDisplay' = s.welcomeDisplay
  /\ chatDisplay' = s.chatDisplay
  /\ typingDisplay' = s.typingDisplay
  /\ errorDisplay' = s.errorDisplay
  /\ errorMessage' = s.errorMessage
  /\ timers' = s.timers
  /\ requests' = s.requests
  /\ consoleError' = s.consoleError

Event(ev, send, resp) == [ev |-> ev, send |-> send, resp |-> resp]

\* ------------------------------------------------------ methods of ChatBot
\* 'session_' + Date.now() + '_' + random suffix: a token nobody holds.  Tokens
\* are only ever compared for equality, so the model names the new one by the
\* smallest index that neither this.sessionId nor a pending request carries.
FreshIndex(s) ==
  CHOOSE n \in 1..(Len(s.requests) + 2) :
    /\ ClientToken(n) # s.sessionId
    /\ \A i \in 1..Len(s.requests) : s.requests[i].session_id # ClientToken(n)
    /\ \A m \in 1..(n - 1) :
         \/ ClientToken(m) = s.sessionId
         \/ \E i \in 1..Len(s.requests) : s.requests[i].session_id = ClientToken(m)

generateSessionId(s) == [s EXCEPT !.sessionId = ClientToken(FreshIndex(s))]

\* mutant: the button follows the text alone
handleInputChangeIgnoresTyping(s) ==
  [s EXCEPT !.charCounter = TextLen(s.messageInput),
            !.sendBtnDisabled = (trim(s.messageInput) = <<>>)]

handleInputChange(s) ==
  [s EXCEPT !.charCounter = TextLen(s.messageInput),
            !.sendBtnDisabled = (trim(s.messageInput) = <<>>) \/ s.isTyping]

showWelcomeScreen(s) == [s EXCEPT !.welcomeDisplay = "flex", !.chatDisplay = "none"]

showChatInterface(s) == [s EXCEPT !.welcomeDisplay = "none", !.chatDisplay = "flex"]

\* mutant: unshift instead of push
addMessagePrepends(s, text, sender) ==
  [s EXCEPT !.chatMessages = <<sender>> \o s.chatMessages,
            !.messageHistory = <<[text |-> text, sender |-> sender]>> \o s.messageHistory]

addMessage(s, text, sender) ==
  [s EXCEPT !.chatMessages = Append(s.chatMessages, sender),
            !.messageHistory = Append(s.messageHistory, [text |-> text, sender |-> sender])]

showTypingIndicator(s) ==
  [s EXCEPT !.isTyping = TRUE, !.sendBtnDisabled = TRUE, !.typingDisplay = "block"]

hideTypingIndicator(s) ==
  [handleInputChange([s EXCEPT !.isTyping = FALSE]) EXCEPT !.typingDisplay = "none"]

\* mutant: the notice is shown without the timer that hides it
showErrorNoTimer(s, message) ==
  [s EXCEPT !.errorMessage = message, !.errorDisplay = "block"]

showError(s, message) ==
  [s EXCEPT !.errorMessage = message, !.errorDisplay = "block", !.timers = s.timers + 1]

hideError(s) == [s EXCEPT !.errorDisplay = "none"]

\* mutant: the guard forgets this.isTyping
SendGuardIgnoresTyping(s) == trim(s.messageInput) # <<>>

\* mutant: the guard tests the text as typed, not trimmed
SendGuardNoTrim(s) == s.messageInput # <<>> /\ ~s.isTyping

\* the guard of sendMessage: if (!message || this.isTyping) return
SendGuard(s) == trim(s.messageInput) # <<>> /\ ~s.isTyping

\* mutant: the request is submitted twice
issueFetchTwice(s, message) ==
  [s EXCEPT !.requests = s.requests \o << [question |-> message, session_id |-> s.sessionId],
                                          [question |-> message, session_id |-> s.sessionId] >>]

\* the fetch that sendToAPI issues: the body is built when sendMessage calls it
issueFetch(s, message) ==
  [s EXCEPT !.requests = Append(s.requests, [question |-> message, session_id |-> s.sessionId])]

\* sendMessage up to its await
sendMessage(s) ==
  IF ~SendGuard(s) THEN s
  ELSE LET message == trim(s.messageInput)
           s1 == handleInputChange([s EXCEPT !.messageInput = <<>>])
           s2 == IF s1.chatDisplay = "none" THEN showChatInterface(s1) ELSE s1
           s3 == addMessage(s2, message, "user")
           s4 == showTypingIndicator(s3)
       IN issueFetch(s4, message)

askSampleQuestion(s, question) ==
  sendMessage(handleInputChange([s EXCEPT !.messageInput = question]))

HttpStatusText(status) == IF status = 500 THEN "HTTP 500" ELSE "HTTP error"

\* mutant: the detail of the error body is dropped
sendToAPIStatusOnly(resp) ==
  CASE resp.kind = "transport" ->
         [threw |-> TRUE, error |-> "Failed to fetch", body |-> NoBody]
    [] resp.kind = "http" ->
         [threw |-> TRUE, error |-> HttpStatusText(resp.status), body |-> NoBody]
    [] resp.kind = "unparsable" ->
         [threw |-> TRUE, error |-> "SyntaxError", body |-> NoBody]
    [] OTHER ->
         [threw |-> FALSE, error |-> "", body |-> resp.body]

\* what the await of sendToAPI yields once the fetch has settled with resp
sendToAPI(resp) ==
  CASE resp.kind = "transport" ->
         [threw |-> TRUE, error |-> "Failed to fetch", body |-> NoBody]
    [] resp.kind = "http" ->
         [threw |-> TRUE,
          error |-> IF resp.hasDetail /\ resp.detail # "" THEN resp.detail
                    ELSE HttpStatusText(resp.status),
          body |-> NoBody]
    [] resp.kind = "unparsable" ->
         [threw |-> TRUE, error |-> "SyntaxError", body |-> NoBody]
    [] OTHER ->
         [threw |-> FALSE, error |-> "", body |-> resp.body]

\* formatMessage calls text.replace: a TypeError when the answer is no string
formatMessageThrows(body) == ~body.hasAnswer

\* mutant: the session_id of the response is never stored
adoptSessionIdNever(s, sid) == s

\* if (response.session_id) this.sessionId = response.session_id
adoptSessionId(s, sid) == IF sid.k = "value" THEN [s EXCEPT !.sessionId = sid.v] ELSE s

\* mutant: the catch block renders the failure as a message of the assistant
sendMessageCatchPlaceholder(s, error) ==
  [showError(addMessage(hideTypingIndicator(s), << Run("?", 1) >>, "assistant"), GenericError)
     EXCEPT !.consoleError = error]

sendMessageCatch(s, error) ==
  [showError(hideTypingIndicator(s), GenericError) EXCEPT !.consoleError = error]

sendMessageFinally(s) == handleInputChange([s EXCEPT !.isTyping = FALSE])

\* mutant: the session_id is stored before the answer is rendered
sendMessageSettleAdoptsFirst(s, resp) ==
  LET r == sendToAPI(resp) IN
  IF r.threw THEN sendMessageFinally(sendMessageCatch(s, r.error))
  ELSE LET s1 == adoptSessionId(hideTypingIndicator(s), r.body.session_id) IN
       IF formatMessageThrows(r.body)
       THEN sendMessageFinally(sendMessageCatch(s1, "TypeError"))
       ELSE sendMessageFinally(addMessage(s1, r.body.answer, "assistant"))

\* sendMessage from its await on: try, catch and finally
sendMessageSettle(s, resp) ==
  LET r == sendToAPI(resp) IN
  IF r.threw THEN sendMessageFinally(sendMessageCatch(s, r.error))
  ELSE LET s1 == hideTypingIndicator(s) IN
       IF formatMessageThrows(r.body)
       THEN sendMessageFinally(sendMessageCatch(s1, "TypeError"))
       ELSE sendMessageFinally(
              adoptSessionId(addMessage(s1, r.body.answer, "assistant"), r.body.session_id))

\* the loading overlay is shown and hidden again within the call
startNewChat(s) ==
  LET s1 == generateSessionId(s)
      s2 == [s1 EXCEPT !.chatMessages = <<>>, !.messageHistory = <<>>]
      s3 == showWelcomeScreen(s2)
  IN handleInputChange([s3 EXCEPT !.messageInput = <<>>])

\* --------------------------------------------------------------- the model
\* the bounds of the model, on the state a handler leaves
Within(s) ==
  /\ Len(s.messageHistory) <= MaxHistory
  /\ s.timers <= MaxTimers

SendOutcome(s) == IF SendGuard(s) THEN "accepted" ELSE "rejected"

RemoveAt(q, i) == SubSeq(q, 1, i - 1) \o SubSeq(q, i + 1, Len(q))

\* the state the constructor leaves; the markup (not part of the sources)
\* decides whether sendBtn starts disabled
Init ==
  /\ sessionId = ClientToken(1)
  /\ isTyping = FALSE
  /\ messageHistory = <<>>
  /\ chatMessages = <<>>
  /\ messageInput = <<>>
  /\ sendBtnDisabled \in BOOLEAN
  /\ charCounter = 0
  /\ welcomeDisplay = "flex"
  /\ chatDisplay = "none"
  /\ typingDisplay = "none"
  /\ errorDisplay = "none"
  /\ errorMessage = ""
  /\ timers = 0
  /\ requests = <<>>
  /\ consoleError = ""
  /\ pendingDispatch = "none"
  /\ lastEvent = Event("init", "none", NoResponse)

\* the input listener: the user has edited the textarea
InputChange ==
  /\ pendingDispatch = "none"
  /\ \E text \in InputTexts :
       /\ text # messageInput
       /\ Commit(handleInputChange([Cur EXCEPT !.messageInput = text]))
  /\ pendingDispatch' = "none"
  /\ lastEvent' = Event("input", "none", NoResponse)

\* the click listener of sendBtn; a disabled button fires no click
ClickSend ==
  /\ pendingDispatch = "none"
  /\ ~sendBtnDisabled
  /\ \E s \in {sendMessage(Cur)} : Within(s) /\ Commit(s)
  /\ pendingDispatch' = "none"
  /\ lastEvent' = Event("click_send", SendOutcome(Cur), NoResponse)

\* the keydown listener of messageInput: Enter without Shift; with Ctrl or
\* Cmd held the event goes on to the keydown listener of document
KeydownEnter ==
  /\ pendingDispatch = "none"
  /\ \E s \in {sendMessage(Cur)} : Within(s) /\ Commit(s)
  /\ \E ctrl \in BOOLEAN : pendingDispatch' = IF ctrl THEN "doc_keydown" ELSE "none"
  /\ lastEvent' = Event("keydown_enter", SendOutcome(Cur), NoResponse)

\* the click listener of a sample button
ClickSample ==
  /\ pendingDispatch = "none"
  /\ \E q \in SampleQuestions :
       \E s \in {askSampleQuestion(Cur, q)} :
         /\ Within(s)
         /\ Commit(s)
         /\ lastEvent' =
              Event("sample", SendOutcome(handleInputChange([Cur EXCEPT !.messageInput = q])),
                    NoResponse)
  /\ pendingDispatch' = "none"

\* the click listener of newChatBtn, and the keydown listener of document on
\* Ctrl/Cmd+Enter
NewChat ==
  /\ \E s \in {startNewChat(Cur)} : Within(s) /\ Commit(s)
  /\ pendingDispatch' = "none"
  /\ lastEvent' = Event("new_chat", "none", NoResponse)

\* a fetch settles and sendMessage resumes after its await
Settle ==
  /\ pendingDispatch = "none"
  /\ \E i \in 1..Len(requests), resp \in Responses :
       \E s \in {sendMessageSettle([Cur EXCEPT !.requests = RemoveAt(requests, i)], resp)} :
         /\ Within(s)
         /\ Commit(s)
         /\ lastEvent' = Event("settle", "none", resp)
  /\ pendingDispatch' = "none"

\* a timer of showError fires after its 5 seconds
TimerFires ==
  /\ pendingDispatch = "none"
  /\ timers > 0
  /\ Commit(hideError([Cur EXCEPT !.timers = timers - 1]))
  /\ pendingDispatch' = "none"
  /\ lastEvent' = Event("timer", "none", NoResponse)

\* the offline listener of window
Offline ==
  /\ pendingDispatch = "none"
  /\ \E s \in {showError(Cur, OfflineError)} : Within(s) /\ Commit(s)
  /\ pendingDispatch' = "none"
  /\ lastEvent' = Event("offline", "none", NoResponse)

\* the error listener of window
GlobalError ==
  /\ pendingDispatch = "none"
  /\ \E s \in {showError(Cur, UnexpectedError)} : Within(s) /\ Commit(s)
  /\ pendingDispatch' = "none"
  /\ lastEvent' = Event("error", "none", NoResponse)

Next ==
  \/ InputChange
  \/ ClickSend
  \/ KeydownEnter
  \/ ClickSample
  \/ NewChat
  \/ Settle
  \/ TimerFires
  \/ Offline
  \/ GlobalError

Spec == Init /\ [][Next]_vars

\* the keydown event that reached messageInput goes on to document within
\* the same dispatch
BubbleToDocument == pendingDispatch = "doc_keydown" /\ NewChat

\* a timer that is set fires, however often a dispatch in progress delays it,
\* and a dispatch that has begun is completed
FairSpec == Spec /\ SF_vars(TimerFires) /\ WF_vars(BubbleToDocument)

\* the page as the specification starts it: Idle, with the send control
\* disabled (the markup that sets the button's first state is not among the
\* sources)
InitSendDisabled == Init /\ sendBtnDisabled

SpecSendDisabled == InitSendDisabled /\ [][Next]_vars

\* the runs in which new-chat is never requested while a request is in
\* flight: the button and the document listener act only with no request
\* pending, and a Ctrl/Cmd+Enter that has sent a message does not occur
NewChatWhenIdle == requests = <<>> /\ NewChat

KeydownEnterNoNewChatInFlight ==
  KeydownEnter /\ ~(pendingDispatch' = "doc_keydown" /\ requests' # <<>>)

NextNoNewChatInFlight ==
  \/ InputChange
  \/ ClickSend
  \/ KeydownEnterNoNewChatInFlight
  \/ ClickSample
  \/ NewChatWhenIdle
  \/ Settle
  \/ TimerFires
  \/ Offline
  \/ GlobalError

SpecNoNewChatInFlight == Init /\ [][NextNoNewChatInFlight]_vars

\* ----------------------------------------------------------- the claims
SendEvents == {"click_send", "keydown_enter", "sample"}

\* a settled fetch that yields no usable answer: transport error, non-2xx
\* status, unparsable body, or a body without an answer string
IsFailure(resp) == resp.kind # "ok" \/ ~resp.body.hasAnswer

\* a text without a character that is not whitespace
IsBlankText(t) == \A i \in 1..Len(t) : t[i].c \in Whitespace

IsPrefix(h, g) == Len(h) <= Len(g) /\ SubSeq(g, 1, Len(h)) = h

\* C1: in every reachable state at most one request to the backend is in
\* flight (issued and not yet settled).
C1_AtMostOneInFlight == Len(requests) <= 1

\* a send was refused with text in the input while a request is in flight
C1_Witness ==
  /\ Len(requests) = 1
  /\ lastEvent.ev \in SendEvents
  /\ trim(messageInput) # <<>>

\* C2 (as claimed): when a request settles that was issued under a token
\* other than the current one (new-chat came in between), the transcript and
\* the session token are left as they are.
C2_StaleResponseDiscarded ==
  [][ ( /\ lastEvent'.ev = "settle"
        /\ Len(requests) = 1
        /\ requests[1].session_id # sessionId )
      => (messageHistory' = messageHistory /\ sessionId' = sessionId) ]_vars

\* C3: a send requested (button, Enter, sample question) while a request is
\* in flight appends nothing, issues nothing, keeps the token and stays in
\* AwaitingResponse.
C3_SendWhileAwaitingIsNoOp ==
  [][ (lastEvent'.ev \in SendEvents /\ Len(requests) = 1)
      => ( /\ messageHistory' = messageHistory
           /\ chatMessages' = chatMessages
           /\ requests' = requests
           /\ sessionId' = sessionId
           /\ isTyping'
           /\ sendBtnDisabled' ) ]_vars

\* a sample question was clicked while a request was in flight
C3_Witness ==
  /\ lastEvent.ev = "sample"
  /\ lastEvent.send = "rejected"
  /\ Len(requests) = 1
  /\ messageInput \in SampleQuestions

\* C4: every step leaves the transcript unchanged, appends exactly one
\* message at its end, or (new-chat only) empties it.
C4_TranscriptAppendOnly ==
  [][ \/ messageHistory' = messageHistory
      \/ (Len(messageHistory') = Len(messageHistory) + 1
            /\ IsPrefix(messageHistory, messageHistory'))
      \/ (messageHistory' = <<>> /\ lastEvent'.ev = "new_chat") ]_vars

\* an answer was appended behind an earlier exchange
C4_Witness ==
  /\ lastEvent.ev = "settle"
  /\ Len(messageHistory) = 3
  /\ messageHistory[3].sender = "assistant"

\* C5: an accepted send appends exactly one user message and issues exactly
\* one request; its settling appends exactly one assistant message on success
\* and none on failure; requests are issued by sends only.
C5_OneMessageOneRequestPerSend ==
  [][ /\ ( ( /\ lastEvent'.ev \in {"click_send", "keydown_enter"}
             /\ trim(messageInput) # <<>>
             /\ requests = <<>> )
           => ( /\ messageHistory' =
                     Append(messageHistory, [text |-> trim(messageInput), sender |-> "user"])
                /\ Len(requests') = 1 ) )
      /\ ( (lastEvent'.ev = "sample" /\ requests = <<>>)
           => ( /\ Len(messageHistory') = Len(messageHistory) + 1
                /\ IsPrefix(messageHistory, messageHistory')
                /\ messageHistory'[Len(messageHistory')].sender = "user"
                /\ messageHistory'[Len(messageHistory')].text \in SampleQuestions
                /\ Len(requests') = 1 ) )
      /\ ( (lastEvent'.ev = "settle" /\ ~IsFailure(lastEvent'.resp))
           => messageHistory' =
                Append(messageHistory,
                       [text |-> lastEvent'.resp.body.answer, sender |-> "assistant"]) )
      /\ ( (lastEvent'.ev = "settle" /\ IsFailure(lastEvent'.resp))
           => messageHistory' = messageHistory )
      /\ ( lastEvent'.ev = "settle" => Len(requests') = Len(requests) - 1 )
      /\ ( lastEvent'.ev \notin SendEvents => Len(requests') <= Len(requests) ) ]_vars

\* a question was answered: the exchange is the whole transcript
C5_Witness ==
  /\ lastEvent.ev = "settle"
  /\ ~IsFailure(lastEvent.resp)
  /\ requests = <<>>
  /\ Len(messageHistory) = 2
  /\ messageHistory[1].sender = "user"
  /\ messageHistory[2].sender = "assistant"

\* C6: a successful response with a nonempty session_id S makes S the token;
\* one without leaves the token; every request carries the token held when it
\* is issued; the token changes by adoption and new-chat only.
C6_TokenAdoption ==
  [][ /\ ( ( /\ lastEvent'.ev = "settle"
             /\ ~IsFailure(lastEvent'.resp)
             /\ lastEvent'.resp.body.session_id.k = "value" )
           => sessionId' = lastEvent'.resp.body.session_id.v )
      /\ ( ( /\ lastEvent'.ev = "settle"
             /\ ~IsFailure(lastEvent'.resp)
             /\ lastEvent'.resp.body.session_id.k # "value" )
           => sessionId' = sessionId )
      /\ ( Len(requests') > Len(requests)
           => ( /\ requests'[Len(requests')].session_id = sessionId
                /\ sessionId' = sessionId ) )
      /\ ( sessionId' # sessionId
           => \/ lastEvent'.ev = "new_chat"
              \/ ( /\ lastEvent'.ev = "settle"
                   /\ ~IsFailure(lastEvent'.resp)
                   /\ lastEvent'.resp.body.session_id.k = "value" ) ) ]_vars

\* a request is in flight that carries a token the server issued, after a
\* further response without a session_id
C6_Witness ==
  /\ Len(requests) = 1
  /\ requests[1].session_id \in ServerTokens
  /\ sessionId \in ServerTokens
  /\ Len(messageHistory) = 3

\* C7 (as claimed): new-chat in any state leaves no pending request, the
\* send guard open, the transcript and the input empty and a new token.
C7_NewChatLeavesIdle ==
  [][ lastEvent'.ev = "new_chat"
      => ( /\ requests' = <<>>
           /\ ~isTyping'
           /\ messageHistory' = <<>>
           /\ messageInput' = <<>>
           /\ sessionId' # sessionId ) ]_vars

\* C8: a request that settles with a failure appends nothing, keeps the
\* token, shows the error notice and clears the in-flight flag.
C8_FailureReturnsControl ==
  [][ (lastEvent'.ev = "settle" /\ IsFailure(lastEvent'.resp))
      => ( /\ messageHistory' = messageHistory
           /\ chatMessages' = chatMessages
           /\ sessionId' = sessionId
           /\ errorDisplay' = "block"
           /\ errorMessage' = GenericError
           /\ ~isTyping'
           /\ typingDisplay' = "none"
           /\ sendBtnDisabled' = (trim(messageInput') = <<>>) ) ]_vars

\* a 200 body without an answer but with a session_id has settled while the
\* user had typed the next question
C8_Witness ==
  /\ lastEvent.ev = "settle"
  /\ lastEvent.resp.kind = "ok"
  /\ ~lastEvent.resp.body.hasAnswer
  /\ lastEvent.resp.body.session_id.k = "value"
  /\ trim(messageInput) # <<>>
  /\ ~sendBtnDisabled
  /\ errorDisplay = "block"

HttpFailureWithDetail ==
  /\ lastEvent.ev = "settle"
  /\ lastEvent.resp.kind = "http"
  /\ lastEvent.resp.hasDetail
  /\ lastEvent.resp.detail # ""

\* C9 (as claimed): after a non-2xx response whose body holds the detail D,
\* the error notice shows D.
C9_DetailShown ==
  HttpFailureWithDetail => (errorDisplay = "block" /\ errorMessage = lastEvent.resp.detail)

\* C9 (amended): after a non-2xx response whose body holds a nonempty detail
\* D, the error notice shows the generic text and D is the message of the
\* error passed to console.error.
C9_DetailLoggedGenericShown ==
  HttpFailureWithDetail
    => ( /\ errorDisplay = "block"
         /\ errorMessage = GenericError
         /\ consoleError = lastEvent.resp.detail )

C9_Witness ==
  /\ HttpFailureWithDetail
  /\ lastEvent.resp.status = 500
  /\ lastEvent.resp.detail = "index unavailable"
  /\ Len(messageHistory) = 1

\* C10 (as claimed): a send requested with more than MaxInputLength
\* characters in the input appends nothing, issues no request and leaves the
\* text as it is.
C10_OverLengthBlocksSend ==
  [][ ( /\ lastEvent'.ev \in {"click_send", "keydown_enter"}
        /\ TextLen(trim(messageInput)) > MaxInputLength )
      => ( /\ messageHistory' = messageHistory
           /\ requests' = requests
           /\ messageInput' = messageInput ) ]_vars

\* C11: a send requested (button or Enter) while the input is empty or holds
\* only whitespace changes nothing: no message, no request, and interaction
\* state, input text and token stay as they are.
C11_BlankSendIsNoOp ==
  [][ ( /\ lastEvent'.ev \in {"click_send", "keydown_enter"}
        /\ IsBlankText(messageInput) )
      => ( /\ messageHistory' = messageHistory
           /\ chatMessages' = chatMessages
           /\ requests' = requests
           /\ isTyping' = isTyping
           /\ sendBtnDisabled' = sendBtnDisabled
           /\ typingDisplay' = typingDisplay
           /\ welcomeDisplay' = welcomeDisplay
           /\ chatDisplay' = chatDisplay
           /\ errorDisplay' = errorDisplay
           /\ messageInput' = messageInput
           /\ charCounter' = charCounter
           /\ sessionId' = sessionId ) ]_vars

\* Enter was pressed on an input of two blanks with no request in flight
C11_Witness ==
  /\ lastEvent.ev = "keydown_enter"
  /\ messageInput = << Run(" ", 2) >>
  /\ requests = <<>>
  /\ ~isTyping
  /\ messageHistory = <<>>

\* t is x without its leading and trailing whitespace, the rest untouched
IsTrimOf(t, x) ==
  /\ t # <<>>
  /\ t[1].c \notin Whitespace
  /\ t[Len(t)].c \notin Whitespace
  /\ \E i \in 1..Len(x) :
       /\ i + Len(t) - 1 <= Len(x)
       /\ SubSeq(x, i, i + Len(t) - 1) = t
       /\ \A k \in 1..(i - 1) : x[k].c \in Whitespace
       /\ \A k \in (i + Len(t))..Len(x) : x[k].c \in Whitespace

\* C12: for every accepted send the text of the user message and the
\* question of the request are the input without its leading and trailing
\* whitespace (inner whitespace kept), and the request carries the token held
\* when the send was accepted.
C12_TrimmedTextStoredAndSent ==
  [][ /\ ( ( /\ lastEvent'.ev \in {"click_send", "keydown_enter"}
             /\ ~IsBlankText(messageInput)
             /\ requests = <<>> )
           => ( /\ Len(messageHistory') = Len(messageHistory) + 1
                /\ Len(requests') = 1
                /\ messageHistory'[Len(messageHistory')].sender = "user"
                /\ IsTrimOf(messageHistory'[Len(messageHistory')].text, messageInput)
                /\ requests'[1].question = messageHistory'[Len(messageHistory')].text
                /\ requests'[1].session_id = sessionId ) )
      /\ ( (lastEvent'.ev = "sample" /\ requests = <<>>)
           => ( /\ Len(messageHistory') = Len(messageHistory) + 1
                /\ Len(requests') = 1
                /\ \E q \in SampleQuestions :
                     IsTrimOf(messageHistory'[Len(messageHistory')].text, q)
                /\ requests'[1].question = messageHistory'[Len(messageHistory')].text
                /\ requests'[1].session_id = sessionId ) ) ]_vars

\* the padded input " \na b  " was sent as "a b" under a token of the server
C12_Witness ==
  /\ lastEvent.ev = "keydown_enter"
  /\ Len(requests) = 1
  /\ requests[1].question = << Run("a", 1), Run(" ", 1), Run("b", 1) >>
  /\ requests[1].session_id \in ServerTokens
  /\ messageHistory[Len(messageHistory)] =
       [text |-> << Run("a", 1), Run(" ", 1), Run("b", 1) >>, sender |-> "user"]
  /\ messageInput = <<>>

\* a step that changes nothing but the session token, and does change that
OnlyTokenRenewed ==
  /\ sessionId' # sessionId
  /\ messageHistory' = messageHistory
  /\ chatMessages' = chatMessages
  /\ messageInput' = messageInput
  /\ charCounter' = charCounter
  /\ sendBtnDisabled' = sendBtnDisabled
  /\ isTyping' = isTyping
  /\ requests' = requests
  /\ welcomeDisplay' = welcomeDisplay
  /\ chatDisplay' = chatDisplay
  /\ typingDisplay' = typingDisplay
  /\ errorDisplay' = errorDisplay
  /\ errorMessage' = errorMessage
  /\ timers' = timers

\* C13 (as claimed): a new-chat that follows a new-chat leaves the state the
\* first one left, but for a new token: empty transcript, empty input, Idle
\* (no request pending, the send guard open).
C13_NewChatTwiceAsOnce ==
  [][ (lastEvent.ev = "new_chat" /\ lastEvent'.ev = "new_chat")
      => ( /\ OnlyTokenRenewed
           /\ messageHistory' = <<>>
           /\ messageInput' = <<>>
           /\ requests' = <<>>
           /\ ~isTyping' ) ]_vars

\* C14: every error notice that is displayed is eventually hidden again
\* without user action, provided timers fire.
C14_ErrorNoticeExpires == (errorDisplay = "block") ~> (errorDisplay = "none")

\* the timer of the notice of a failed request has fired and hidden it
C14_Witness ==
  /\ lastEvent.ev = "timer"
  /\ errorDisplay = "none"
  /\ errorMessage = GenericError
  /\ timers = 0

\* C15: the step in which a request settles appends the assistant message
\* and adopts the token of the response together or not at all: the token
\* changes only to the session_id of a response whose answer is appended in
\* the same step, an appended answer comes with its session_id adopted, and a
\* body without a usable answer changes neither transcript nor token.
C15_SettleIsAllOrNothing ==
  [][ lastEvent'.ev = "settle"
      => ( /\ ( sessionId' # sessionId
                => ( /\ lastEvent'.resp.body.session_id.k = "value"
                     /\ sessionId' = lastEvent'.resp.body.session_id.v
                     /\ messageHistory' =
                          Append(messageHistory,
                                 [text |-> lastEvent'.resp.body.answer, sender |-> "assistant"]) ) )
           /\ ( ( /\ messageHistory' # messageHistory
                  /\ lastEvent'.resp.body.session_id.k = "value" )
                => sessionId' = lastEvent'.resp.body.session_id.v )
           /\ ( (lastEvent'.resp.kind = "ok" /\ ~lastEvent'.resp.body.hasAnswer)
                => (messageHistory' = messageHistory /\ sessionId' = sessionId) ) ) ]_vars

\* a 200 body that holds a session_id but no answer has settled: the question
\* is still the whole transcript and the client's token is still held
C15_Witness ==
  /\ lastEvent.ev = "settle"
  /\ lastEvent.resp.kind = "ok"
  /\ ~lastEvent.resp.body.hasAnswer
  /\ lastEvent.resp.body.session_id.k = "value"
  /\ sessionId = ClientToken(1)
  /\ Len(messageHistory) = 1
  /\ messageHistory[1].sender = "user"
  /\ requests = <<>>

\* C16: after every completed handler the send control is enabled exactly
\* when the input is nonempty after trimming and no request is in flight,
\* and after an input event the counter shows the length of the input.
C16_SendEnabledIffSendable ==
  /\ sendBtnDisabled = (IsBlankText(messageInput) \/ requests # <<>>)
  /\ lastEvent.ev = "input" => charCounter = TextLen(messageInput)

\* the user has typed an over-long text while a request is in flight: the
\* counter follows, the button stays disabled
C16_Witness ==
  /\ lastEvent.ev = "input"
  /\ Len(requests) = 1
  /\ messageInput = LongText
  /\ charCounter = MaxInputLength + 1
  /\ sendBtnDisabled

\* C17 (as claimed): every message of the transcript, of the user or of the
\* assistant, has a text that is nonempty after trimming.
C17_NoBlankMessage ==
  \A i \in 1..Len(messageHistory) : ~IsBlankText(messageHistory[i].text)

\* All timers of showError run 5 s, so they fire in the order they were set.
\* While the notice is displayed no timer has fired since the showError that
\* displayed it, so with two or more timers pending the one that fires next
\* was set by an earlier notice.
EarlierTimerFires == lastEvent'.ev = "timer" /\ timers >= 2 /\ errorDisplay = "block"

\* C18 (as claimed): the timer of an earlier notice never hides a notice that
\* was shown later.
C18_NoticeOutlivesEarlierTimers ==
  [][ EarlierTimerFires => errorDisplay' = "block" ]_vars

\* C19 (as claimed): after every handler exactly one of welcome screen and
\* chat interface is displayed, the welcome screen exactly when the
\* transcript is empty.
C19_WelcomeIffTranscriptEmpty ==
  /\ (welcomeDisplay = "flex") # (chatDisplay = "flex")
  /\ (welcomeDisplay = "none") # (chatDisplay = "none")
  /\ (welcomeDisplay = "flex") = (messageHistory = <<>>)

\* C20: in the runs where new-chat is never requested while a request is in
\* flight, every assistant message of the transcript comes right after a
\* user message, so there are never more assistant than user messages.
C20_AssistantFollowsUser ==
  /\ \A i \in 1..Len(messageHistory) :
       messageHistory[i].sender = "assistant" =>
         i > 1 /\ messageHistory[i - 1].sender = "user"
  /\ Cardinality({i \in 1..Len(messageHistory) : messageHistory[i].sender = "assistant"})
       <= Cardinality({i \in 1..Len(messageHistory) : messageHistory[i].sender = "user"})

\* a successful exchange followed by a second question
C20_Witness ==
  /\ Len(messageHistory) = 3
  /\ messageHistory[1].sender = "user"
  /\ messageHistory[2].sender = "assistant"
  /\ messageHistory[3].sender = "user"

====
